---- MODULE Spec2Model ----
(***************************************************************************)
(* A model of rugui's element tree (src/src/lib.rs: Gui) and of the size   *)
(* and position algebra of its style sheets (src/src/styles.rs).           *)
(*                                                                         *)
(* Numbers.  The code computes in f32.  The model computes in integers:    *)
(* the pixel values, percentages and viewport sizes drawn below are chosen *)
(* so that every product p/100 and every halving the model reaches is an   *)
(* integer, hence exact in f32 as well.  f32::INFINITY is the value        *)
(* INFINITY, which f32_min treats as the code's min does.                  *)
(*                                                                         *)
(* Three specifications share the variables:                               *)
(*   Spec       the tree: add_element, remove_node, get_node_mut,          *)
(*              set_entry, resize and the propagation pass;                *)
(*   SpecStyle  the pure resolvers get_width, get_height, get_x, get_y     *)
(*              applied to style sheets drawn from a bounded space;        *)
(*   SpecFlags  the dirty flags of one element's sheet under the mutable   *)
(*              accessors and setters, next to the tree's operations.      *)
(***************************************************************************)
EXTENDS Integers, Sequences, FiniteSets, TLC

VARIABLES
    nodes,       \* Gui.nodes: HashMap<ElementKey, Element>, a function on the present keys
    entry,       \* Gui.entry: Option<ElementKey>
    last_key,    \* Gui.last_key: u64
    size,        \* Gui.size: (u32, u32)
    gpu_size,    \* the extent last given to GpuBound (new / resize)
    status,      \* "running", or how the process left the last call
    window_arg,  \* what transform_element hands get_width as window_width
    issued,      \* history: the keys add_element returned, in order
    removed,     \* history: the last remove_node call, its key and what HashMap::remove returned
    last_pass,   \* history: the last propagation pass
    ops,         \* the number of operations called so far
    sheet,       \* SpecStyle: the style sheet the resolvers are applied to
    call         \* SpecStyle: the last resolver call and its result

vars == <<nodes, entry, last_key, size, gpu_size, status, window_arg,
          issued, removed, last_pass, ops, sheet, call>>

treeVars == <<nodes, entry, last_key, size, gpu_size, status, window_arg,
              issued, removed, last_pass, ops>>

styleVars == <<sheet, call>>

(***************************************************************************)
(* Bounds of the model.                                                    *)
(***************************************************************************)
\* add_element is called at most MaxKeys times.
MaxKeys == 3

\* At most MaxOps operations are called on the tree.
MaxOps == 5

\* Option<T>: None is the empty sequence, Some(x) the one-element sequence.
None == <<>>

Some(x) == <<x>>

\* The key ids add_element can issue within the bound.
Keys == 0 .. (MaxKeys - 1)

(***************************************************************************)
(* styles.rs: Size and Position.                                           *)
(***************************************************************************)
SizeNone == [tag |-> "None", v |-> 0]

SizeFill == [tag |-> "Fill", v |-> 0]

Pixel(x) == [tag |-> "Pixel", v |-> x]

Percent(p) == [tag |-> "Percent", v |-> p]

AbsFill == [tag |-> "AbsFill", v |-> 0]

AbsPercent(p) == [tag |-> "AbsPercent", v |-> p]

\* A compass anchor of Position.
Anchor(name) == [tag |-> name, x |-> SizeNone, y |-> SizeNone]

\* Position::Custom(x, y).
Custom(sx, sy) == [tag |-> "Custom", x |-> sx, y |-> sy]

(***************************************************************************)
(* f32 arithmetic on the values the model draws.                           *)
(***************************************************************************)
\* std::f32::INFINITY.
INFINITY == [inf |-> TRUE, v |-> 0]

\* A finite f32.
Finite(x) == [inf |-> FALSE, v |-> x]

\* a.min(m) for a finite a and an m that may be INFINITY.
f32_min(a, m) == IF m.inf THEN a ELSE IF a < m.v THEN a ELSE m.v

\* a.max(b) for finite a and b.
f32_max(a, b) == IF a > b THEN a ELSE b

\* extent * (percent / 100.)
Pct(extent, percent) == (extent * percent) \div 100

\* extent / 2.0
Half(extent) == extent \div 2

(***************************************************************************)
(* styles.rs: StyleSheet::get_width, get_height, get_x, get_y.             *)
(***************************************************************************)
\* get_width with a Pixel width held to the parent's width.
width_base_pixel_capped(self, parent_width, window_width) ==
    LET r == self.transform.width
    IN  CASE r.tag = "Fill"       -> parent_width
          [] r.tag = "Pixel"      -> IF r.v < parent_width THEN r.v ELSE parent_width
          [] r.tag = "Percent"    -> Pct(parent_width, r.v)
          [] r.tag = "None"       -> parent_width
          [] r.tag = "AbsFill"    -> window_width
          [] r.tag = "AbsPercent" -> Pct(window_width, r.v)

\* get_width: the match on self.transform.width.
width_base(self, parent_width, window_width) ==
    LET r == self.transform.width
    IN  CASE r.tag = "Fill"       -> parent_width
          [] r.tag = "Pixel"      -> r.v
          [] r.tag = "Percent"    -> Pct(parent_width, r.v)
          [] r.tag = "None"       -> parent_width
          [] r.tag = "AbsFill"    -> window_width
          [] r.tag = "AbsPercent" -> Pct(window_width, r.v)

\* get_width: the match on self.transform.min_width.
width_min(self, parent_width, window_width) ==
    LET r == self.transform.min_width
    IN  CASE r.tag = "Pixel"      -> r.v
          [] r.tag = "Percent"    -> Pct(parent_width, r.v)
          [] r.tag = "AbsFill"    -> window_width
          [] r.tag = "AbsPercent" -> Pct(window_width, r.v)
          [] OTHER                -> 0

\* get_width: the match on self.transform.max_width.
width_max(self, parent_width, window_width) ==
    LET r == self.transform.max_width
    IN  CASE r.tag = "Pixel"      -> Finite(r.v)
          [] r.tag = "Percent"    -> Finite(Pct(parent_width, r.v))
          [] r.tag = "AbsFill"    -> Finite(window_width)
          [] r.tag = "AbsPercent" -> Finite(Pct(window_width, r.v))
          [] OTHER                -> INFINITY

\* get_width: the match on self.transform.margin (no AbsFill arm).
width_margin(self, parent_width, window_width) ==
    LET r == self.transform.margin
    IN  CASE r.tag = "Pixel"      -> r.v
          [] r.tag = "Percent"    -> Pct(parent_width, r.v)
          [] r.tag = "AbsPercent" -> Pct(window_width, r.v)
          [] OTHER                -> 0

\* get_width clamping in the other order: (w - margin).max(min).min(max)
get_width_max_last(self, parent_width, window_width) ==
    f32_min(f32_max(width_base(self, parent_width, window_width)
                      - width_margin(self, parent_width, window_width),
                    width_min(self, parent_width, window_width)),
            width_max(self, parent_width, window_width))

\* get_width taking the margin off after the clamp: w.min(max).max(min) - margin
get_width_margin_last(self, parent_width, window_width) ==
    f32_max(f32_min(width_base(self, parent_width, window_width),
                    width_max(self, parent_width, window_width)),
            width_min(self, parent_width, window_width))
      - width_margin(self, parent_width, window_width)

\* (w - margin).min(max).max(min)
get_width(self, parent_width, window_width) ==
    f32_max(f32_min(width_base(self, parent_width, window_width)
                      - width_margin(self, parent_width, window_width),
                    width_max(self, parent_width, window_width)),
            width_min(self, parent_width, window_width))

\* get_height: the match on self.transform.height.
height_base(self, parent_height, window_height) ==
    LET r == self.transform.height
    IN  CASE r.tag = "Fill"       -> parent_height
          [] r.tag = "Pixel"      -> r.v
          [] r.tag = "Percent"    -> Pct(parent_height, r.v)
          [] r.tag = "None"       -> parent_height
          [] r.tag = "AbsFill"    -> window_height
          [] r.tag = "AbsPercent" -> Pct(window_height, r.v)

\* get_height: the match on self.transform.min_height.
height_min(self, parent_height, window_height) ==
    LET r == self.transform.min_height
    IN  CASE r.tag = "Pixel"      -> r.v
          [] r.tag = "Percent"    -> Pct(parent_height, r.v)
          [] r.tag = "AbsFill"    -> window_height
          [] r.tag = "AbsPercent" -> Pct(window_height, r.v)
          [] OTHER                -> 0

\* get_height: the match on self.transform.max_height.
height_max(self, parent_height, window_height) ==
    LET r == self.transform.max_height
    IN  CASE r.tag = "Pixel"      -> Finite(r.v)
          [] r.tag = "Percent"    -> Finite(Pct(parent_height, r.v))
          [] r.tag = "AbsFill"    -> Finite(window_height)
          [] r.tag = "AbsPercent" -> Finite(Pct(window_height, r.v))
          [] OTHER                -> INFINITY

\* get_height: the match on self.transform.margin (the one margin rule of the sheet).
height_margin(self, parent_height, window_height) ==
    LET r == self.transform.margin
    IN  CASE r.tag = "Pixel"      -> r.v
          [] r.tag = "Percent"    -> Pct(parent_height, r.v)
          [] r.tag = "AbsPercent" -> Pct(window_height, r.v)
          [] OTHER                -> 0

\* (h - margin).min(max).max(min)
get_height(self, parent_height, window_height) ==
    f32_max(f32_min(height_base(self, parent_height, window_height)
                      - height_margin(self, parent_height, window_height),
                    height_max(self, parent_height, window_height)),
            height_min(self, parent_height, window_height))

\* The three columns and the three rows of the compass anchors.
LeftAnchors == {"BottomLeft", "Left", "TopLeft"}

MidXAnchors == {"Bottom", "Center", "Top"}

RightAnchors == {"BottomRight", "Right", "TopRight"}

TopAnchors == {"TopLeft", "Top", "TopRight"}

MidYAnchors == {"Left", "Center", "Right"}

BottomAnchors == {"BottomLeft", "Bottom", "BottomRight"}

get_x(self, parent_x, parent_width, width) ==
    LET t == self.transform
        x == CASE t.position.tag \in LeftAnchors  -> parent_x - Half(parent_width)
               [] t.position.tag \in MidXAnchors  -> parent_x
               [] t.position.tag \in RightAnchors -> parent_x + Half(parent_width)
               [] t.position.tag = "Custom" ->
                    CASE t.position.x.tag = "Pixel"   -> parent_x + t.position.x.v
                      [] t.position.x.tag = "Percent" -> parent_x + Pct(parent_width, t.position.x.v)
                      [] OTHER                        -> parent_x
        align == CASE t.align.tag \in LeftAnchors  -> Half(width)
                   [] t.align.tag \in MidXAnchors  -> 0
                   [] t.align.tag \in RightAnchors -> 0 - Half(width)
                   [] t.align.tag = "Custom" ->
                        CASE t.align.x.tag = "Pixel"   -> t.align.x.v
                          [] t.align.x.tag = "Percent" -> Pct(width, t.align.x.v)
                          [] OTHER                     -> 0
    IN  x + align

get_y(self, parent_y, parent_height, height) ==
    LET t == self.transform
        y == CASE t.position.tag \in TopAnchors    -> parent_y - Half(height)
               [] t.position.tag \in MidYAnchors   -> parent_y
               [] t.position.tag \in BottomAnchors -> parent_y + Half(height)
               [] t.position.tag = "Custom" ->
                    CASE t.position.y.tag = "Pixel"   -> parent_y + t.position.y.v
                      [] t.position.y.tag = "Percent" -> parent_y + Pct(parent_height, t.position.y.v)
                      [] OTHER                        -> parent_y
        align == CASE t.align.tag \in TopAnchors    -> Half(height)
                   [] t.align.tag \in MidYAnchors   -> 0
                   [] t.align.tag \in BottomAnchors -> 0 - Half(height)
                   [] t.align.tag = "Custom" ->
                        CASE t.align.y.tag = "Pixel"   -> t.align.y.v
                          [] t.align.y.tag = "Percent" -> Pct(height, t.align.y.v)
                          [] OTHER                     -> 0
    IN  y + align

(***************************************************************************)
(* styles.rs: StyleSheet::default, and the style sheets the tree's         *)
(* elements are given (Element::with_styles).                              *)
(***************************************************************************)
\* The fields of Flags, in the order of the struct.
FlagNames ==
    {"dirty_color", "dirty_texture", "dirty_lin_gradient", "dirty_rad_gradient",
     "dirty_text", "dirty_transform", "dirty_border", "recalc_transform"}

\* Flags::default leaving the transform flags clear.
FlagsDefault_transform_clear ==
    [f \in FlagNames |-> f \notin {"dirty_transform", "recalc_transform"}]

\* Flags::default
FlagsDefault == [f \in FlagNames |-> TRUE]

StyleSheetDefault ==
    [transform |-> [rotation   |-> "None",
                    position   |-> Anchor("Center"),
                    align      |-> Anchor("Center"),
                    width      |-> SizeFill,
                    max_width  |-> SizeNone,
                    min_width  |-> SizeNone,
                    height     |-> SizeFill,
                    max_height |-> SizeNone,
                    min_height |-> SizeNone,
                    margin     |-> SizeNone,
                    padding    |-> SizeNone],
     background |-> [color |-> "zeroed", texture |-> None,
                     lin_gradient |-> None, rad_gradient |-> None],
     border |-> "default",
     text |-> "default",
     visible |-> TRUE,
     flags |-> FlagsDefault]

\* A sheet with rules of both kinds.  Width, relative to the viewport: half
\* of it less the margin, at least 300 (from 400 the base 190 is below
\* min_width).  Height, relative to the parent: all of it less the margin,
\* at most 400 (from 600 the base 590 is above max_height).  A tint and a
\* texture.
MixedSheet ==
    [StyleSheetDefault EXCEPT !.transform.width = AbsPercent(50),
                              !.transform.min_width = Pixel(300),
                              !.transform.max_height = Pixel(400),
                              !.transform.margin = Pixel(10),
                              !.background.color = "tint",
                              !.background.texture = Some("texture")]

Sheets == {StyleSheetDefault, MixedSheet}

(***************************************************************************)
(* styles.rs: the mutable accessors and the setters of StyleSheet.  An     *)
(* accessor sets its flag and hands out the sub-record; what the caller    *)
(* then writes through the handle is the caller's (see the call_ actions). *)
(***************************************************************************)
transfomr_mut(self) == [self EXCEPT !.flags.recalc_transform = TRUE]

\* bg_color_mut marking the whole background, texture included.
bg_color_mut_background(self) ==
    [self EXCEPT !.flags.dirty_color = TRUE, !.flags.dirty_texture = TRUE]

bg_color_mut(self) == [self EXCEPT !.flags.dirty_color = TRUE]

\* set_bg_texture marking the texture dirty only when one is given.
set_bg_texture_some(self, texture) ==
    [self EXCEPT !.flags.dirty_texture = (texture # None),
                 !.background.texture = texture]

set_bg_texture(self, texture) ==
    [self EXCEPT !.flags.dirty_texture = TRUE, !.background.texture = texture]

set_bg_lin_gradient(self, lin_gradient) ==
    [self EXCEPT !.flags.dirty_lin_gradient = TRUE,
                 !.background.lin_gradient = lin_gradient]

set_bg_rad_gradient(self, rad_gradient) ==
    [self EXCEPT !.flags.dirty_rad_gradient = TRUE,
                 !.background.rad_gradient = rad_gradient]

text_mut(self) == [self EXCEPT !.flags.dirty_text = TRUE]

border_mut(self) == [self EXCEPT !.flags.dirty_border = TRUE]

set_visible(self, visible) == [self EXCEPT !.visible = visible]

\* The viewport sizes given to Gui::new and Gui::resize.
Viewports == {<<800, 600>>, <<400, 300>>}

(***************************************************************************)
(* lib.rs: Children, NodeTransform, Element.                               *)
(***************************************************************************)
ChildrenNone == [kind |-> "None", children |-> <<>>, spacing |-> SizeNone]

ChildrenElement(k) == [kind |-> "Element", children |-> <<k>>, spacing |-> SizeNone]

Layers(ks) == [kind |-> "Layers", children |-> ks, spacing |-> SizeNone]

Rows(ks, sp) == [kind |-> "Rows", children |-> ks, spacing |-> sp]

Columns(ks, sp) == [kind |-> "Columns", children |-> ks, spacing |-> sp]

\* The child list drawn for Layers, Rows and Columns: the first two keys, once issued.
ChildLists(K) == {l \in {<<0, 1>>} : l[1] \in K /\ l[2] \in K}

\* Children::None or a Children::Element link to one of the keys K.
LinkChoices(K) == {ChildrenNone} \cup {ChildrenElement(k) : k \in K}

\* The arrangements of several children over the keys K.
ListChoices(K) ==
    {Layers(l) : l \in ChildLists(K)}
      \cup {Rows(l, Pixel(10)) : l \in ChildLists(K)}
      \cup {Columns(l, Pixel(10)) : l \in ChildLists(K)}

NodeTransform(pos, scale, rot) == [position |-> pos, scale |-> scale, rotation |-> rot]

\* RenderElement::zeroed: the inert renderable of a new element.
RenderElementZeroed ==
    [transform |-> NodeTransform(<<0, 0>>, <<0, 0>>, 0), color |-> "zeroed", texture |-> None]

\* Element::new(gui).with_styles(styles).with_children(children)
Element(styles, children) ==
    [styles |-> styles, children |-> children, render_element |-> RenderElementZeroed]

\* The elements given to add_element by a caller holding the keys K: any
\* sheet with a link or no children, and the default sheet with several.
NewElements(K) ==
    {Element(s, c) : s \in Sheets, c \in LinkChoices(K)}
      \cup {Element(StyleSheetDefault, c) : c \in ListChoices(K)}

(***************************************************************************)
(* lib.rs: the propagation pass.                                           *)
(***************************************************************************)
\* The second argument of get_width / get_height at lib.rs:114.  The call
\* site passes the incoming scale only, while the resolvers take a window
\* extent too: the model lets the build supply either extent in scope.
WindowExtent(warg, sz, transform) ==
    IF warg = "viewport" THEN sz ELSE transform.scale

\* The transform with the sizes resolved against the viewport as the parent.
OwnTransform_viewport(styles, warg, sz, transform) ==
    NodeTransform(<<transform.position[1], transform.position[2]>>,
                  <<get_width(styles, sz[1], WindowExtent(warg, sz, transform)[1]),
                    get_height(styles, sz[2], WindowExtent(warg, sz, transform)[2])>>,
                  0)

\* The transform an element builds from the incoming one (lib.rs:113-119).
OwnTransform(styles, warg, sz, transform) ==
    NodeTransform(<<transform.position[1], transform.position[2]>>,
                  <<get_width(styles, transform.scale[1], WindowExtent(warg, sz, transform)[1]),
                    get_height(styles, transform.scale[2], WindowExtent(warg, sz, transform)[2])>>,
                  0)

\* The pushes with set_transform moving the renderable by the new position
\* from where it is, where the code overwrites its transform.
Pushed_relative(node, own) ==
    [transform |-> [own EXCEPT !.position =
                       <<node.render_element.transform.position[1] + own.position[1],
                         node.render_element.transform.position[2] + own.position[2]>>],
     color     |-> node.styles.background.color,
     texture   |-> IF node.styles.background.texture # None
                   THEN node.styles.background.texture
                   ELSE node.render_element.texture]

\* set_texture (when a texture is set), set_color, set_transform (lib.rs:120-128).
Pushed(node, own) ==
    [transform |-> own,
     color     |-> node.styles.background.color,
     texture   |-> IF node.styles.background.texture # None
                   THEN node.styles.background.texture
                   ELSE node.render_element.texture]

\* The children match of transform_element (lib.rs:129-138): what the visit
\* of an element with these children does next.
ChildrenStep(children) ==
    CASE children.kind = "Element" -> "recurse"
      [] children.kind = "Layers"  -> "todo"
      [] children.kind = "Rows"    -> "todo"
      [] children.kind = "Columns" -> "todo"
      [] children.kind = "None"    -> "return"

\* transform_element.  The result holds the map after the pass, the visits in
\* order (key, incoming transform, own transform) and how the call ended:
\* "returned", "todo" (the todo!() panic) or "unbounded": a key is visited a
\* second time, so the chain of Element links is a cycle and the recursion
\* has no end.  The model stops at that second visit.
RECURSIVE transform_element(_, _, _, _, _, _)
transform_element(ns, warg, sz, key, transform, visits) ==
    IF key \notin DOMAIN ns
    THEN [nodes |-> ns, visits |-> visits, outcome |-> "returned"]
    ELSE LET node == ns[key]
             own == OwnTransform(node.styles, warg, sz, transform)
             ns2 == [ns EXCEPT ![key].render_element = Pushed(node, own)]
             visits2 == Append(visits, [key |-> key, parent |-> transform, own |-> own])
             step == ChildrenStep(node.children)
         IN  IF \E i \in 1 .. Len(visits) : visits[i].key = key
             THEN [nodes |-> ns2, visits |-> visits2, outcome |-> "unbounded"]
             ELSE IF step = "recurse"
             THEN transform_element(ns2, warg, sz, node.children.children[1], own, visits2)
             ELSE IF step = "todo"
             THEN [nodes |-> ns2, visits |-> visits2, outcome |-> "todo"]
             ELSE [nodes |-> ns2, visits |-> visits2, outcome |-> "returned"]

\* The box transform_entry seeds the pass with (lib.rs:101-105).
ViewportBox(sz) == NodeTransform(<<Half(sz[1]), Half(sz[2])>>, <<sz[1], sz[2]>>, 0)

\* transform_entry starting at the first key when no entry is set.
transform_entry_first_key(ns, en, warg, sz) ==
    [seed |-> Some(ViewportBox(sz))]
      @@ transform_element(ns, warg, sz, IF en = None THEN 0 ELSE en[1], ViewportBox(sz), <<>>)

\* transform_entry: no pass without an entry.
transform_entry(ns, en, warg, sz) ==
    IF en = None
    THEN [nodes |-> ns, visits |-> <<>>, outcome |-> "returned", seed |-> None]
    ELSE [seed |-> Some(ViewportBox(sz))]
           @@ transform_element(ns, warg, sz, en[1], ViewportBox(sz), <<>>)

\* How the process leaves a call whose pass ended with `outcome`: a todo!()
\* panics; an unbounded recursion overflows the stack or, compiled as a
\* tail call, never returns.
StatusAfter(outcome) ==
    CASE outcome = "returned"  -> {"running"}
      [] outcome = "todo"      -> {"panicked"}
      [] outcome = "unbounded" -> {"stack_overflow", "hang"}

\* HashMap::remove.
map_remove(ns, key) == [k \in DOMAIN ns \ {key} |-> ns[k]]

\* HashMap::insert.
map_insert(ns, key, element) ==
    [k \in DOMAIN ns \cup {key} |-> IF k = key THEN element ELSE ns[k]]

\* HashMap::get(..).cloned()
map_get(ns, key) == IF key \in DOMAIN ns THEN Some(ns[key]) ELSE None

NoPass ==
    [trigger |-> "none", after |-> None, taken |-> None, seed |-> None, visits |-> <<>>,
     outcome |-> "returned"]

\* The record of a pass: the operation that ran it, the remove_node call it
\* came after, the previous entry set_entry took (its key and its element,
\* if the map still held one), the seed box, the visits and how it ended.
PassRecord(trigger, after, taken, pass) ==
    [trigger |-> trigger, after |-> after, taken |-> taken, seed |-> pass.seed,
     visits |-> pass.visits, outcome |-> pass.outcome]

\* What set_entry's self.entry.take() and remove_node drop.
Taken(ns, en) ==
    IF en = None THEN None ELSE Some([key |-> en[1], element |-> map_get(ns, en[1])])

(***************************************************************************)
(* lib.rs: the operations of Gui.                                          *)
(***************************************************************************)
\* Gui::new(size, ..)
Init ==
    /\ nodes = << >>
    /\ entry = None
    /\ last_key = 0
    /\ size = <<800, 600>>
    /\ gpu_size = size
    /\ status = "running"
    /\ window_arg \in {"viewport", "parent"}
    /\ issued = <<>>
    /\ removed = None
    /\ last_pass = NoPass
    /\ ops = 0
    /\ sheet = StyleSheetDefault
    /\ call = [fn |-> "none", args |-> <<>>, result |-> 0]

\* Every operation: the process is alive, and the model's budget of calls.
Callable ==
    /\ status = "running"
    /\ ops < MaxOps
    /\ ops' = ops + 1

\* add_element taking the key from the number of nodes in the map.
add_element_len(element) ==
    /\ Callable
    /\ last_key < MaxKeys
    /\ nodes' = map_insert(nodes, Cardinality(DOMAIN nodes), element)
    /\ last_key' = last_key + 1
    /\ issued' = Append(issued, Cardinality(DOMAIN nodes))
    /\ UNCHANGED <<entry, size, gpu_size, status, window_arg, removed, last_pass, sheet, call>>

add_element(element) ==
    /\ Callable
    /\ last_key < MaxKeys
    /\ nodes' = map_insert(nodes, last_key, element)
    /\ last_key' = last_key + 1
    /\ issued' = Append(issued, last_key)
    /\ UNCHANGED <<entry, size, gpu_size, status, window_arg, removed, last_pass, sheet, call>>

\* The keys an element's Children value names.
ChildKeys(element) ==
    {element.children.children[i] : i \in 1 .. Len(element.children.children)}

\* remove_node cascading into the children the removed element names.
remove_node_cascade(key) ==
    /\ Callable
    /\ nodes' = IF key \in DOMAIN nodes
                THEN [k \in DOMAIN nodes \ ({key} \cup ChildKeys(nodes[key])) |-> nodes[k]]
                ELSE nodes
    /\ removed' = Some([key |-> key, element |-> map_get(nodes, key)])
    /\ UNCHANGED <<entry, last_key, size, gpu_size, status, window_arg, issued,
                   last_pass, sheet, call>>

remove_node(key) ==
    /\ Callable
    /\ nodes' = map_remove(nodes, key)
    /\ removed' = Some([key |-> key, element |-> map_get(nodes, key)])
    /\ UNCHANGED <<entry, last_key, size, gpu_size, status, window_arg, issued,
                   last_pass, sheet, call>>

\* gui.get_node_mut(key).map(|node| node.children = children)
get_node_mut(key, children) ==
    /\ Callable
    /\ nodes' = IF key \in DOMAIN nodes
                THEN [nodes EXCEPT ![key].children = children]
                ELSE nodes
    /\ UNCHANGED <<entry, last_key, size, gpu_size, status, window_arg, issued,
                   removed, last_pass, sheet, call>>

\* set_entry removing the previous entry together with the children it names.
EntryTaken_subtree(ns, en) ==
    IF en # None /\ en[1] \in DOMAIN ns
    THEN [k \in DOMAIN ns \ ({en[1]} \cup ChildKeys(ns[en[1]])) |-> ns[k]]
    ELSE ns

\* The map after set_entry's `if let Some(entry) = self.entry.take()`.
EntryTaken(ns, en) == IF en # None THEN map_remove(ns, en[1]) ELSE ns

set_entry(key) ==
    /\ Callable
    /\ LET pass == transform_entry(EntryTaken(nodes, entry), key, window_arg, size)
       IN  /\ nodes' = pass.nodes
           /\ entry' = key
           /\ status' \in StatusAfter(pass.outcome)
           /\ last_pass' = PassRecord("set_entry", removed, Taken(nodes, entry), pass)
    /\ UNCHANGED <<last_key, size, gpu_size, window_arg, issued, removed, sheet, call>>

\* resize running the pass with the size stored before the call.
resize_stale(sz) ==
    /\ Callable
    /\ size' = sz
    /\ gpu_size' = sz
    /\ LET pass == transform_entry(nodes, entry, window_arg, size)
       IN  /\ nodes' = pass.nodes
           /\ status' \in StatusAfter(pass.outcome)
           /\ last_pass' = PassRecord("resize", removed, None, pass)
    /\ UNCHANGED <<entry, last_key, window_arg, issued, removed, sheet, call>>

resize(sz) ==
    /\ Callable
    /\ size' = sz
    /\ gpu_size' = sz
    /\ LET pass == transform_entry(nodes, entry, window_arg, sz)
       IN  /\ nodes' = pass.nodes
           /\ status' \in StatusAfter(pass.outcome)
           /\ last_pass' = PassRecord("resize", removed, None, pass)
    /\ UNCHANGED <<entry, last_key, window_arg, issued, removed, sheet, call>>

\* The keys a caller holds: those add_element has returned.
IssuedKeys == 0 .. (last_key - 1)

Next ==
    \/ \E e \in NewElements(IssuedKeys) : add_element(e)
    \/ \E k \in IssuedKeys : remove_node(k)
    \/ \E k \in IssuedKeys, c \in LinkChoices(IssuedKeys) : get_node_mut(k, c)
    \/ \E k \in {None} \cup {Some(k) : k \in IssuedKeys} : set_entry(k)
    \/ \E sz \in Viewports : resize(sz)

Spec == Init /\ [][Next]_vars

(***************************************************************************)
(* SpecStyle: the resolvers of styles.rs applied to a style sheet.         *)
(***************************************************************************)
\* The size rules drawn for width, height, min, max and margin.
Rules == {SizeNone, SizeFill, Pixel(50), Pixel(300), Pixel(-50), Percent(50),
          Percent(200), AbsFill, AbsPercent(50)}

\* The anchors and offsets drawn for position and align.
Positions ==
    {Anchor(a) : a \in LeftAnchors \cup MidXAnchors \cup RightAnchors}
      \cup {Custom(Pixel(10), Percent(50)), Custom(Percent(50), Pixel(10)),
            Custom(SizeFill, SizeNone)}

\* Sheets whose width rules, or whose height rules, are drawn freely.
SizeSheets ==
    {[StyleSheetDefault EXCEPT !.transform.width = b, !.transform.min_width = lo,
                               !.transform.max_width = hi, !.transform.margin = m]
        : b \in Rules, lo \in Rules, hi \in Rules, m \in Rules}
      \cup
    {[StyleSheetDefault EXCEPT !.transform.height = b, !.transform.min_height = lo,
                               !.transform.max_height = hi, !.transform.margin = m]
        : b \in Rules, lo \in Rules, hi \in Rules, m \in Rules}

\* Sheets whose position and align are drawn freely.
PositionSheets ==
    {[StyleSheetDefault EXCEPT !.transform.position = p, !.transform.align = a]
        : p \in Positions, a \in Positions}

\* The extents of a parent and of the viewport, and the centres of a parent.
ParentExtents == {0, 200, 400}

WindowExtents == {400, 800}

OwnExtents == {50, 100}

Centres == {0, 100}

NoCall == [fn |-> "none", args |-> <<>>, result |-> 0]

InitStyle ==
    /\ nodes = << >>
    /\ entry = None
    /\ last_key = 0
    /\ size = <<800, 600>>
    /\ gpu_size = size
    /\ status = "running"
    /\ window_arg = "viewport"
    /\ issued = <<>>
    /\ removed = None
    /\ last_pass = NoPass
    /\ ops = 0
    /\ sheet \in SizeSheets \cup PositionSheets
    /\ call = NoCall

\* The resolvers take &self and write nothing: a behaviour applies one
\* resolver to the sheet drawn, a second call would add no state.
Resolvable == call = NoCall

call_get_width(parent_width, window_width) ==
    /\ Resolvable
    /\ call' = [fn |-> "get_width", args |-> <<parent_width, window_width>>,
                result |-> get_width(sheet, parent_width, window_width)]
    /\ UNCHANGED <<sheet, treeVars>>

call_get_height(parent_height, window_height) ==
    /\ Resolvable
    /\ call' = [fn |-> "get_height", args |-> <<parent_height, window_height>>,
                result |-> get_height(sheet, parent_height, window_height)]
    /\ UNCHANGED <<sheet, treeVars>>

call_get_x(parent_x, parent_width, width) ==
    /\ Resolvable
    /\ call' = [fn |-> "get_x", args |-> <<parent_x, parent_width, width>>,
                result |-> get_x(sheet, parent_x, parent_width, width)]
    /\ UNCHANGED <<sheet, treeVars>>

call_get_y(parent_y, parent_height, height) ==
    /\ Resolvable
    /\ call' = [fn |-> "get_y", args |-> <<parent_y, parent_height, height>>,
                result |-> get_y(sheet, parent_y, parent_height, height)]
    /\ UNCHANGED <<sheet, treeVars>>

NextStyle ==
    \/ \E pw \in ParentExtents, ww \in WindowExtents : call_get_width(pw, ww)
    \/ \E ph \in ParentExtents, wh \in WindowExtents : call_get_height(ph, wh)
    \/ \E px \in Centres, pw \in ParentExtents, w \in OwnExtents : call_get_x(px, pw, w)
    \/ \E py \in Centres, ph \in ParentExtents, h \in OwnExtents : call_get_y(py, ph, h)

SpecStyle == InitStyle /\ [][NextStyle]_vars


(***************************************************************************)
(* SpecFlags: the dirty flags of an element's style sheet under the        *)
(* accessors and setters of styles.rs and the operations of Gui.           *)
(***************************************************************************)
\* The calls of one behaviour of SpecFlags.
MaxStyleCalls == 2

\* Flags is eight booleans, crate-visible: a sheet's flags are whatever the
\* renderer's synchronisation has left set since the sheet's last changes.
FlagSheets == {[StyleSheetDefault EXCEPT !.flags = fl] : fl \in [FlagNames -> BOOLEAN]}

\* The element the caller restyles: the first one added.
StyledKey == 0

\* Gui::new, add_element(Element::new(..)) and the flags as synchronised since.
InitFlags ==
    /\ \E s \in FlagSheets : nodes = map_insert(<< >>, StyledKey, Element(s, ChildrenNone))
    /\ entry = None
    /\ last_key = 1
    /\ size = <<800, 600>>
    /\ gpu_size = size
    /\ status = "running"
    /\ window_arg \in {"viewport", "parent"}
    /\ issued = <<StyledKey>>
    /\ removed = None
    /\ last_pass = NoPass
    /\ ops = MaxOps - MaxStyleCalls
    /\ sheet = StyleSheetDefault
    /\ call = NoCall

\* gui.get_node_mut(key).map(|node| node.styles = styles), the sheet being
\* what the call `fn` of the node's sheet, given `arg`, has made of it.
Restyle(key, styles, fn, arg) ==
    /\ Callable
    /\ nodes' = [nodes EXCEPT ![key].styles = styles]
    /\ call' = [fn |-> fn, args |-> <<key, arg>>, result |-> 0]
    /\ UNCHANGED <<entry, last_key, size, gpu_size, status, window_arg, issued,
                   removed, last_pass, sheet>>

\* *node.styles.transfomr_mut() with, or without, a write of the width rule.
call_transfomr_mut(key, write) ==
    /\ key \in DOMAIN nodes
    /\ LET s == transfomr_mut(nodes[key].styles)
       IN  Restyle(key, IF write = None THEN s ELSE [s EXCEPT !.transform.width = write[1]],
                   "transfomr_mut", write)

call_bg_color_mut(key, write) ==
    /\ key \in DOMAIN nodes
    /\ LET s == bg_color_mut(nodes[key].styles)
       IN  Restyle(key, IF write = None THEN s ELSE [s EXCEPT !.background.color = write[1]],
                   "bg_color_mut", write)

call_text_mut(key, write) ==
    /\ key \in DOMAIN nodes
    /\ LET s == text_mut(nodes[key].styles)
       IN  Restyle(key, IF write = None THEN s ELSE [s EXCEPT !.text = write[1]],
                   "text_mut", write)

call_border_mut(key, write) ==
    /\ key \in DOMAIN nodes
    /\ LET s == border_mut(nodes[key].styles)
       IN  Restyle(key, IF write = None THEN s ELSE [s EXCEPT !.border = write[1]],
                   "border_mut", write)

call_set_bg_texture(key, texture) ==
    /\ key \in DOMAIN nodes
    /\ Restyle(key, set_bg_texture(nodes[key].styles, texture), "set_bg_texture", texture)

call_set_bg_lin_gradient(key, lin_gradient) ==
    /\ key \in DOMAIN nodes
    /\ Restyle(key, set_bg_lin_gradient(nodes[key].styles, lin_gradient), "set_bg_lin_gradient", lin_gradient)

call_set_bg_rad_gradient(key, rad_gradient) ==
    /\ key \in DOMAIN nodes
    /\ Restyle(key, set_bg_rad_gradient(nodes[key].styles, rad_gradient), "set_bg_rad_gradient", rad_gradient)

call_set_visible(key, visible) ==
    /\ key \in DOMAIN nodes
    /\ Restyle(key, set_visible(nodes[key].styles, visible), "set_visible", Some(visible))

\* What a caller writes, or not, through a handle, and gives to a setter.
Writes(v) == {None, Some(v)}

NextFlags ==
    \/ \E w \in Writes(Pixel(50)) : call_transfomr_mut(StyledKey, w)
    \/ \E w \in Writes("tint") : call_bg_color_mut(StyledKey, w)
    \/ \E w \in Writes("edited") : call_text_mut(StyledKey, w)
    \/ \E w \in Writes("edited") : call_border_mut(StyledKey, w)
    \/ \E t \in Writes("texture") : call_set_bg_texture(StyledKey, t)
    \/ \E g \in Writes("gradient") : call_set_bg_lin_gradient(StyledKey, g)
    \/ \E g \in Writes("gradient") : call_set_bg_rad_gradient(StyledKey, g)
    \/ \E v \in BOOLEAN : call_set_visible(StyledKey, v)
    \/ \E c \in LinkChoices(IssuedKeys) : add_element(Element(StyleSheetDefault, c))
    \/ \E k \in IssuedKeys : remove_node(k)
    \/ \E k \in {None} \cup {Some(k) : k \in IssuedKeys} : set_entry(k)
    \/ \E sz \in Viewports : resize(sz)

SpecFlags == InitFlags /\ [][NextFlags]_vars

(***************************************************************************)
(* The claims.                                                             *)
(***************************************************************************)
\* The keys a pass visited, in order.
VisitedKeys(pass) == {pass.visits[i].key : i \in 1 .. Len(pass.visits)}

\* C1: every add_element call returns a key no earlier call returned: the
\* first key has id 0, each later key has an id one greater than the
\* previous one, and no key is issued again, also after its node is removed.
C1_FreshKeys ==
    /\ \A i \in 1 .. Len(issued) : issued[i] = i - 1
    /\ \A i, j \in 1 .. Len(issued) : i # j => issued[i] # issued[j]

\* C1's case: a key is issued after the node of an earlier key was removed.
C1_Witness ==
    /\ Len(issued) = 2
    /\ removed # None
    /\ removed[1].key = 0
    /\ removed[1].element # None
    /\ DOMAIN nodes = {1}

Orphan(ns, en, c) ==
    /\ c \in DOMAIN ns
    /\ en # Some(c)
    /\ \A j \in DOMAIN ns : c \notin ChildKeys(ns[j])

\* A step that runs transform_entry.
PassStep ==
    \/ \E k \in {None} \cup {Some(j) : j \in Keys} : entry' = k /\ set_entry(k)
    \/ \E sz \in Viewports : size' = sz /\ resize(sz)

\* C3: remove_node(key) deletes the map entry for key and nothing else:
\* every other node, the children the removed element named included, stays
\* in the map unchanged.  A child left without a referent (an orphan) is
\* still returned by get_node and is visited by no pass.
C3_RemoveDoesNotCascade ==
    [][/\ \A k \in Keys :
            (removed' = Some([key |-> k, element |-> map_get(nodes, k)]) /\ remove_node(k)) =>
              /\ DOMAIN nodes' = DOMAIN nodes \ {k}
              /\ \A j \in DOMAIN nodes' : nodes'[j] = nodes[j]
              /\ k \in DOMAIN nodes => \A c \in ChildKeys(nodes[k]) \ {k} :
                    c \in DOMAIN nodes => map_get(nodes', c) = Some(nodes[c])
              /\ entry' = entry
       /\ (removed' = removed /\ last_key' = last_key /\ PassStep) =>
            \A c \in Keys :
                Orphan(nodes', entry', c) => c \notin VisitedKeys(last_pass')
      ]_vars

\* C3's case: the sole referent of a Children::Element(child) link was
\* removed, child is still in the map, and a later pass ran and visited
\* another node but not child.
C3_Witness ==
    /\ last_pass.after # None
    /\ last_pass.after = removed
    /\ removed[1].element # None
    /\ removed[1].element[1].children.kind = "Element"
    /\ Orphan(nodes, entry, removed[1].element[1].children.children[1])
    /\ last_pass.seed # None
    /\ Len(last_pass.visits) >= 1
    /\ removed[1].element[1].children.children[1] \notin VisitedKeys(last_pass)

\* width = Fill and height = Fill with no min, max or margin.
FillFill(styles) ==
    /\ styles.transform.width = SizeFill
    /\ styles.transform.height = SizeFill
    /\ styles.transform.min_width = SizeNone
    /\ styles.transform.max_width = SizeNone
    /\ styles.transform.min_height = SizeNone
    /\ styles.transform.max_height = SizeNone
    /\ styles.transform.margin = SizeNone

AtMost(result, hi) == hi.inf \/ result <= hi.v

\* lo <= hi, for an upper bound that may be INFINITY.
Ordered(lo, hi) == hi.inf \/ lo <= hi.v

VisitedScaleClamped ==
    \A i \in 1 .. Len(last_pass.visits) :
        LET v == last_pass.visits[i]
            w == WindowExtent(window_arg, last_pass.seed[1].scale, v.parent)
        IN  v.key \in DOMAIN nodes =>
              /\ width_min(nodes[v.key].styles, v.parent.scale[1], w[1]) <= v.own.scale[1]
              /\ AtMost(v.own.scale[1], width_max(nodes[v.key].styles, v.parent.scale[1], w[1]))
              /\ height_min(nodes[v.key].styles, v.parent.scale[2], w[2]) <= v.own.scale[2]
              /\ AtMost(v.own.scale[2], height_max(nodes[v.key].styles, v.parent.scale[2], w[2]))

\* C5: with anchor TopLeft and align Center, inside a parent of width W and
\* height H centred at (0, 0), get_x and get_y yield (-W/2, -H/2) for every
\* own width and height.
C5_TopLeftCenter ==
    (/\ sheet.transform.position = Anchor("TopLeft")
     /\ sheet.transform.align = Anchor("Center")) =>
        /\ (call.fn = "get_x" /\ call.args[1] = 0) =>
               call.result = 0 - (call.args[2] \div 2)
        /\ (call.fn = "get_y" /\ call.args[1] = 0) =>
               call.result = 0 - (call.args[2] \div 2)

\* The visits of the pass a step just ran.
Visits == last_pass'.visits

\* The keys of visit i's element that are in the map, and those that are not.
PresentChildren(i) == ChildKeys(nodes'[Visits[i].key]) \cap DOMAIN nodes'

MissingChildren(i) == ChildKeys(nodes'[Visits[i].key]) \ DOMAIN nodes'

\* C7: a missing key met during a pass (the entry key, or a child key whose
\* node is not in the map) ends only that branch, without error: the pass
\* completes and every sibling branch whose node is present is visited.
C7_MissingKeyEndsBranchOnly ==
    [][PassStep =>
         /\ (entry' # None /\ entry'[1] \notin DOMAIN nodes') =>
                /\ last_pass'.outcome = "returned"
                /\ status' = "running"
         /\ \A i \in 1 .. Len(Visits) :
                MissingChildren(i) # {} =>
                  /\ last_pass'.outcome = "returned"
                  /\ status' = "running"
                  /\ PresentChildren(i) \subseteq VisitedKeys(last_pass')
      ]_vars

\* C8: every pass terminates and visits no node twice: a cycle of Children
\* references is detected and reported, the traversal neither loops nor
\* recurses without end.
C8_NoRevisitNoDivergence ==
    [][PassStep =>
         /\ \A i, j \in 1 .. Len(Visits) : i # j => Visits[i].key # Visits[j].key
         /\ last_pass'.outcome # "unbounded"
         /\ status' \notin {"stack_overflow", "hang"}
      ]_vars

\* C9: when a pass visits an element whose children are Layers(children),
\* it recurses into every listed child, each with that element's own
\* resolved box as its parent box.
C9_LayersRecurse ==
    [][PassStep =>
         \A i \in 1 .. Len(Visits) :
            nodes'[Visits[i].key].children.kind = "Layers" =>
              \A c \in PresentChildren(i) :
                 \E j \in 1 .. Len(Visits) :
                    /\ Visits[j].key = c
                    /\ Visits[j].parent = Visits[i].own
      ]_vars

\* C10: a pass (set_entry or resize) that reaches an element whose children
\* are Rows or Columns never aborts: it completes, visiting the children at
\* least as Layers would, and the tree stays usable.
C10_RowsColumnsDegrade ==
    [][PassStep =>
         \A i \in 1 .. Len(Visits) :
            nodes'[Visits[i].key].children.kind \in {"Rows", "Columns"} =>
              /\ last_pass'.outcome = "returned"
              /\ status' = "running"
              /\ PresentChildren(i) \subseteq VisitedKeys(last_pass')
      ]_vars

\* The flags of the styled element before and after a step.
FlagsBefore == nodes[StyledKey].styles.flags

FlagsAfter == nodes'[StyledKey].styles.flags

\* The step set the flag f and left every other flag as it was.
SetsOnly(f) ==
    /\ FlagsAfter[f]
    /\ \A g \in FlagNames \ {f} : FlagsAfter[g] = FlagsBefore[g]

\* C11: each of bg_color_mut, set_bg_texture, set_bg_lin_gradient,
\* set_bg_rad_gradient, text_mut and border_mut sets the flag of its aspect,
\* whether or not the caller writes anything, and leaves every other flag
\* as it was.
C11_MutatorSetsItsFlagOnly ==
    [][/\ \A w \in Writes("tint") :
            call_bg_color_mut(StyledKey, w) => SetsOnly("dirty_color")
       /\ \A t \in Writes("texture") :
            call_set_bg_texture(StyledKey, t) => SetsOnly("dirty_texture")
       /\ \A g \in Writes("gradient") :
            call_set_bg_lin_gradient(StyledKey, g) => SetsOnly("dirty_lin_gradient")
       /\ \A g \in Writes("gradient") :
            call_set_bg_rad_gradient(StyledKey, g) => SetsOnly("dirty_rad_gradient")
       /\ \A w \in Writes("edited") :
            call_text_mut(StyledKey, w) => SetsOnly("dirty_text")
       /\ \A w \in Writes("edited") :
            call_border_mut(StyledKey, w) => SetsOnly("dirty_border")]_vars

\* bg_color_mut was called and nothing written: dirty_color is set, the
\* colour is the default one still, and dirty_texture is still clear.
C11_Witness ==
    /\ call.fn = "bg_color_mut"
    /\ call.args = <<StyledKey, None>>
    /\ StyledKey \in DOMAIN nodes
    /\ nodes[StyledKey].styles.flags["dirty_color"]
    /\ ~nodes[StyledKey].styles.flags["dirty_texture"]
    /\ nodes[StyledKey].styles.background.color = "zeroed"

\* C12: a call of transfomr_mut on a sheet whose transform flags
\* (dirty_transform, recalc_transform) are both clear leaves dirty_transform
\* set.
C12_TransformMutMarksDirty ==
    [][\A w \in Writes(Pixel(50)) :
         (/\ call_transfomr_mut(StyledKey, w)
          /\ ~FlagsBefore["dirty_transform"]
          /\ ~FlagsBefore["recalc_transform"])
            => FlagsAfter["dirty_transform"]]_vars

\* C13: no step of the accessors, the setters, add_element, remove_node,
\* set_entry, resize or the pass they run clears a flag of an element that
\* stays in the map: a flag that is set is still set after the step.
C13_FlagsNeverCleared ==
    [][\A k \in DOMAIN nodes \cap DOMAIN nodes' : \A f \in FlagNames :
         nodes[k].styles.flags[f] => nodes'[k].styles.flags[f]]_vars

\* A setter was called with None on the styled element and a pass has
\* visited that element: its dirty_texture is set, its dirty_color
\* is clear still.
C13_Witness ==
    /\ call.fn = "set_bg_texture"
    /\ call.args = <<StyledKey, None>>
    /\ last_pass.trigger = "set_entry"
    /\ StyledKey \in VisitedKeys(last_pass)
    /\ StyledKey \in DOMAIN nodes
    /\ nodes[StyledKey].styles.flags["dirty_texture"]
    /\ ~nodes[StyledKey].styles.flags["dirty_color"]

\* C14: a width rule AbsPercent(p) resolves against the viewport width only.
\* For every element a pass visits whose width rule is AbsPercent: get_width
\* of its sheet gives one value for every parent width at the viewport's
\* width, and the scale the pass pushed is that value, resolved against the
\* viewport and not against the incoming box.
C14_AbsPercentViewportOnly ==
    [][(removed' = removed /\ last_key' = last_key /\ PassStep) =>
         \A i \in 1 .. Len(Visits) :
            LET v == Visits[i]
                s == nodes'[v.key].styles
            IN  s.transform.width.tag = "AbsPercent" =>
                  /\ \A pw \in ParentExtents :
                        get_width(s, pw, size'[1]) = get_width(s, v.parent.scale[1], size'[1])
                  /\ v.own.scale[1] = get_width(s, v.parent.scale[1], size'[1])
      ]_vars

\* x held to at most hi (which may be INFINITY) and to at least lo.
clamp(x, lo, hi) ==
    LET capped == IF ~hi.inf /\ x > hi.v THEN hi.v ELSE x
    IN  IF capped < lo THEN lo ELSE capped

\* C15: with a width rule Percent(p) and a parent of width W, get_width
\* returns clamp(W * p / 100 - margin, min, max) for the resolved margin,
\* min_width and max_width: the margin comes off before the clamp.
\* get_height does the same with the height rule, the parent's height,
\* min_height and max_height.
C15_PercentMarginThenClamp ==
    /\ (call.fn = "get_width" /\ sheet.transform.width.tag = "Percent") =>
         call.result =
           clamp((call.args[1] * sheet.transform.width.v) \div 100
                   - width_margin(sheet, call.args[1], call.args[2]),
                 width_min(sheet, call.args[1], call.args[2]),
                 width_max(sheet, call.args[1], call.args[2]))
    /\ (call.fn = "get_height" /\ sheet.transform.height.tag = "Percent") =>
         call.result =
           clamp((call.args[1] * sheet.transform.height.v) \div 100
                   - height_margin(sheet, call.args[1], call.args[2]),
                 height_min(sheet, call.args[1], call.args[2]),
                 height_max(sheet, call.args[1], call.args[2]))

\* get_width of 200% of a parent 400 wide, margin 50, at most 300, returned
\* 300: the 750 left after the margin was cut to 300, where the margin taken
\* off last would leave 250.
C15_Witness ==
    /\ call.fn = "get_width"
    /\ sheet.transform.width = Percent(200)
    /\ sheet.transform.margin = Pixel(50)
    /\ sheet.transform.max_width = Pixel(300)
    /\ sheet.transform.min_width = SizeNone
    /\ call.args[1] = 400
    /\ call.result = 300

\* get_width was called on a sheet with a Pixel width rule and with margin,
\* min_width and max_width unset.
PixelWidthCall ==
    /\ call.fn = "get_width"
    /\ sheet.transform.width.tag = "Pixel"
    /\ sheet.transform.margin = SizeNone
    /\ sheet.transform.min_width = SizeNone
    /\ sheet.transform.max_width = SizeNone

\* C16: a width rule Pixel(v), with no margin and min_width and max_width
\* unset, resolves to v whatever the parent's and the viewport's widths are.
C16_PixelExact == PixelWidthCall => call.result = sheet.transform.width.v

\* C16 for the values the unset min_width lets through: v >= 0 resolves to
\* v, and a negative v to 0, whatever the two widths are.
C16_PixelExactNonNegative ==
    PixelWidthCall =>
       call.result = IF sheet.transform.width.v >= 0 THEN sheet.transform.width.v ELSE 0

\* Pixel(300) resolved to 300 inside a parent 200 wide.
C16_Witness ==
    /\ PixelWidthCall
    /\ sheet.transform.width = Pixel(300)
    /\ call.args[1] = 200
    /\ call.result = 300

\* The pass resize(size') would run next, from the state a step leaves.
PassAgain == transform_entry(nodes', entry', window_arg', size')

\* C17: a pass that has returned is repeated by the next one over the same
\* tree and viewport (a resize with the dimensions in force): the second
\* pass returns, visits the same elements with the same incoming and
\* resolved transforms (position, scale, rotation), and leaves every
\* element, its renderable included, as the first left it.
C17_PassIdempotent ==
    [][(removed' = removed /\ last_key' = last_key /\ PassStep /\ status' = "running") =>
         /\ PassAgain.outcome = "returned"
         /\ PassAgain.visits = last_pass'.visits
         /\ PassAgain.seed = last_pass'.seed
         /\ PassAgain.nodes = nodes'
      ]_vars

\* A resize with the dimensions Gui::new was given ran the pass again over
\* an entry with a child, after set_entry had run it: both elements hold
\* what the pass pushed.
C17_Witness ==
    /\ last_pass.trigger = "resize"
    /\ status = "running"
    /\ size = <<800, 600>>
    /\ Len(last_pass.visits) = 2
    /\ \A i \in 1 .. 2 :
          /\ last_pass.visits[i].key \in DOMAIN nodes
          /\ nodes[last_pass.visits[i].key].render_element.transform = last_pass.visits[i].own

\* The defaults of a style sheet: width and height Fill, position and align
\* Center, visible, and all eight flags set.
FullDefaults(styles) ==
    /\ styles.transform.width = SizeFill
    /\ styles.transform.height = SizeFill
    /\ styles.transform.position = Anchor("Center")
    /\ styles.transform.align = Anchor("Center")
    /\ styles.visible = TRUE
    /\ \A f \in {"dirty_color", "dirty_texture", "dirty_lin_gradient", "dirty_rad_gradient",
                 "dirty_text", "dirty_transform", "dirty_border", "recalc_transform"} :
          styles.flags[f] = TRUE

\* C18: the element Element::new creates, as add_element puts it in the map,
\* has a style sheet with the full defaults.
C18_NewElementDefaults ==
    [][last_key' = last_key + 1 =>
         /\ last_key \in DOMAIN nodes'
         /\ FullDefaults(nodes'[last_key].styles)]_vars

\* A second element was created and added next to one whose dirty_color is
\* clear: the new one has the full defaults.
C18_Witness ==
    /\ {StyledKey, 1} \subseteq DOMAIN nodes
    /\ ~nodes[StyledKey].styles.flags["dirty_color"]
    /\ FullDefaults(nodes[1].styles)
    /\ nodes[1].render_element = RenderElementZeroed

\* The elements linked from `key` by Children::Element, in order, up to a
\* missing key, an element with other children, or a key met before
\* (loops: the links come back to an element of the chain).
RECURSIVE LinkChain(_, _, _)
LinkChain(ns, key, seen) ==
    IF key \notin DOMAIN ns
    THEN [keys |-> <<>>, loops |-> FALSE]
    ELSE IF key \in seen
    THEN [keys |-> <<>>, loops |-> TRUE]
    ELSE IF ns[key].children.kind # "Element"
    THEN [keys |-> <<key>>, loops |-> FALSE]
    ELSE LET rest == LinkChain(ns, ns[key].children.children[1], seen \cup {key})
         IN  [keys |-> <<key>> \o rest.keys, loops |-> rest.loops]

\* The chain from the entry a step leaves.
EntryChain ==
    IF entry' = None
    THEN [keys |-> <<>>, loops |-> FALSE]
    ELSE LinkChain(nodes', entry'[1], {})

EntryPresent(ns, en) == en = None \/ en[1] \in DOMAIN ns

\* C20: the entry names a present node and stays so under add_element, under
\* remove_node of a key other than the entry, and under set_entry of a key
\* present in the map, the key that is the entry already included.
C20_EntryNamesPresentNode ==
    [][(/\ EntryPresent(nodes, entry)
        /\ \/ last_key' = last_key + 1
           \/ \E k \in Keys : /\ Some(k) # entry
                              /\ removed' = Some([key |-> k, element |-> map_get(nodes, k)])
                              /\ remove_node(k)
           \/ \E k \in DOMAIN nodes : entry' = Some(k) /\ set_entry(Some(k)))
          => EntryPresent(nodes', entry')]_vars

\* C21: resize(sz) stores sz and, besides, writes only the renderables of
\* the elements its pass visits: the keys of the map, the entry, the key
\* counter and every element's children and style sheet are as before, an
\* element the pass does not visit is as before altogether, and with no
\* entry set there is no pass: nothing is seeded or visited and the map is
\* as before.
C21_ResizeFrame ==
    [][\A sz \in Viewports :
         (size' = sz /\ resize(sz)) =>
           /\ DOMAIN nodes' = DOMAIN nodes
           /\ entry' = entry
           /\ last_key' = last_key
           /\ \A k \in DOMAIN nodes :
                 /\ nodes'[k].children = nodes[k].children
                 /\ nodes'[k].styles = nodes[k].styles
                 /\ k \notin VisitedKeys(last_pass') => nodes'[k] = nodes[k]
           /\ entry = None =>
                 /\ last_pass'.seed = None
                 /\ last_pass'.visits = <<>>
                 /\ nodes' = nodes
      ]_vars

\* resize((400, 300)) ran with no entry set over a map holding an element:
\* nothing was seeded or visited and the element's renderable is the inert
\* one it was created with.
C21_Witness ==
    /\ last_pass.trigger = "resize"
    /\ size = <<400, 300>>
    /\ entry = None
    /\ last_pass.seed = None
    /\ last_pass.visits = <<>>
    /\ 0 \in DOMAIN nodes
    /\ nodes[0].render_element = RenderElementZeroed

====
